---------------------------- MODULE Spec2Model ----------------------------
(***************************************************************************)
(* RedJubjub signatures over a twisted Edwards curve (zexe-redjubjub).     *)
(*                                                                         *)
(* The curve, the two prime fields and the big-integer representation are  *)
(* those of the `algebra` crate, scaled down so that every field element,  *)
(* every curve point and every encoding can be enumerated:                 *)
(*   base field    F_97          (Jubjub: a 255-bit prime, q = 1 mod 4)    *)
(*   curve         -x^2 + y^2 = 1 + 7 x^2 y^2, 104 = 8 * 13 points         *)
(*   scalar field  F_13          (Jubjub: a 252-bit prime)                 *)
(*   BigInteger    2 limbs of 2 bytes of 2 bits (Jubjub: 4 x 8 x 8)        *)
(* so that, as for Jubjub, a base field element leaves exactly the top bit *)
(* of its encoding free and a scalar leaves several.  Digests are as wide  *)
(* as the encodings (Blake2s) and half as wide again (Blake2b: 3 limbs,    *)
(* Jubjub: 8).  Bytes that are only hashed (tags, counters, messages,      *)
(* personalizations, the output of the rng) keep their 8 bits.             *)
(***************************************************************************)
EXTENDS Integers, Sequences, FiniteSets, TLC

(***************************************************************************)
(* Curve parameters E: TEModelParameters                                   *)
(***************************************************************************)
\* modulus of E::BaseField
Q == 97
\* E::COEFF_D (COEFF_A is -1: "D = a*A = -A" in double)
COEFF_D == 7
\* modulus of E::ScalarField, the order of the prime-order subgroup
L == 13

\* width of a byte of an encoding
ByteBits == 2
\* bytes of one limb (u64) of a BigInteger
LimbBytes == 2
\* limbs of <E::BaseField as PrimeField>::BigInt (BigInteger256)
NumLimbs == 2
\* limbs of the wide digest of hash_to_scalar ([u64; 8])
WideLimbs == 3

LimbBits == LimbBytes * ByteBits
NumBytes == NumLimbs * LimbBytes
WideBytes == WideLimbs * LimbBytes

Pow2(n) == 2 ^ n

ByteMod == Pow2(ByteBits)
LimbMod == Pow2(LimbBits)
Byte == 0 .. ByteMod - 1

\* let v = e in F(v), as a `let` of the program is: e is evaluated once, to a
\* value, before F is
Bind(e, F(_)) == CHOOSE r \in {F(v) : v \in {e}} : TRUE

\* Option<T>
None == << >>
Some(v) == << v >>
IsSome(o) == Len(o) = 1
Unwrap(o) == Head(o)

(***************************************************************************)
(* Field arithmetic of E::BaseField and E::ScalarField                     *)
(***************************************************************************)
FAdd(a, b) == (a + b) % Q
FSub(a, b) == (a + Q - b) % Q
FMul(a, b) == (a * b) % Q
FNeg(a) == (Q - a) % Q
FSquare(a) == (a * a) % Q
FDouble(a) == (a + a) % Q

InvTable == [a \in 1 .. Q - 1 |-> CHOOSE b \in 1 .. Q - 1 : (a * b) % Q = 1]
FInverse(a) == IF a = 0 THEN None ELSE Some(InvTable[a])

SqrtTable ==
  [a \in 0 .. Q - 1 |->
     LET roots == {b \in 0 .. Q - 1 : (b * b) % Q = a}
     IN  IF roots = {} THEN None
         ELSE Some(CHOOSE b \in roots : \A c \in roots : b <= c)]
FSqrt(a) == SqrtTable[a]

SAdd(a, b) == (a + b) % L
SMul(a, b) == (a * b) % L
SDouble(a) == (a + a) % L

(***************************************************************************)
(* BigInteger: little-endian limbs, read from and written to bytes         *)
(***************************************************************************)
\* u64::from_le_bytes / to_le_bytes
RECURSIVE FromLeBytesAt(_, _)
FromLeBytesAt(bs, i) ==
  IF i > Len(bs) THEN 0 ELSE bs[i] + ByteMod * FromLeBytesAt(bs, i + 1)

FromLeBytes(bs) == FromLeBytesAt(bs, 1)

ToLeBytes(v) == [i \in 1 .. LimbBytes |-> (v \div Pow2(ByteBits * (i - 1))) % ByteMod]

\* BigInteger::read: n limbs from the first n * LimbBytes bytes, or an io error
BigIntRead(bytes, n) ==
  IF Len(bytes) < n * LimbBytes THEN None
  ELSE Some([i \in 1 .. n |->
              FromLeBytes(SubSeq(bytes, (i - 1) * LimbBytes + 1, i * LimbBytes))])

\* BigInteger::write
BigIntWrite(repr) ==
  [k \in 1 .. Len(repr) * LimbBytes |->
     ToLeBytes(repr[((k - 1) \div LimbBytes) + 1])[((k - 1) % LimbBytes) + 1]]

\* the integer a BigInteger stands for
RECURSIVE ReprValueAt(_, _)
ReprValueAt(repr, i) ==
  IF i > Len(repr) THEN 0 ELSE repr[i] + LimbMod * ReprValueAt(repr, i + 1)

ReprValue(repr) == ReprValueAt(repr, 1)

\* PrimeField::into_repr: the canonical integer of a field element, as limbs
IntoRepr(a) == [i \in 1 .. NumLimbs |-> (a \div Pow2(LimbBits * (i - 1))) % LimbMod]

\* PrimeField::from_repr of E::BaseField: total; a representation that is not
\* below the modulus becomes zero
FromRepr(repr) == IF ReprValue(repr) < Q THEN ReprValue(repr) ELSE 0

\* BigInteger::is_odd
IsOdd(repr) == repr[1] % 2 = 1

(***************************************************************************)
(* Point<E> = GroupProjective<E>: extended coordinates (X, Y, T, Z)        *)
(***************************************************************************)
PointNew(x, y, t, z) == [x |-> x, y |-> y, t |-> t, z |-> z]

\* GroupProjective::zero
PointZero == PointNew(0, 1, 0, 1)

\* GroupProjective::is_zero
PointIsZero(p) == p.x = 0 /\ p.y = p.z /\ p.y # 0 /\ p.t = 0

\* GroupProjective::neg
PointNeg(p) == PointNew(FNeg(p.x), p.y, FNeg(p.t), p.z)

\* GroupProjective::add (unified addition, a = -1)
PointAdd(p, r) ==
  LET a == FMul(p.x, r.x)
      b == FMul(p.y, r.y)
      c == FMul(COEFF_D, FMul(p.t, r.t))
      d == FMul(p.z, r.z)
      h == FAdd(b, a)
      e == FSub(FSub(FMul(FAdd(p.x, p.y), FAdd(r.x, r.y)), a), b)
      f == FSub(d, c)
      g == FAdd(d, c)
  IN  PointNew(FMul(e, f), FMul(g, h), FMul(e, h), FMul(f, g))

\* GroupProjective::into_affine
IntoAffine(p) ==
  IF PointIsZero(p) THEN [x |-> 0, y |-> 1]
  ELSE IF p.z = 1 THEN [x |-> p.x, y |-> p.y]
  ELSE LET zi == InvTable[p.z]
       IN  [x |-> FMul(p.x, zi), y |-> FMul(p.y, zi)]


(***************************************************************************)
(* point.rs                                                                *)
(***************************************************************************)
\* point.rs get_for_y: x^2 = (y^2 - 1) / (d y^2 + 1), x of the given oddness
get_for_y(y, sign) ==
  LET ysq  == FSquare(y)
      tmp2 == FInverse(FAdd(FMul(ysq, COEFF_D), 1))
      tmp1 == FSub(ysq, 1)
  IN  IF ~IsSome(tmp2) THEN None
      ELSE LET r == FSqrt(FMul(tmp1, Unwrap(tmp2)))
           IN  IF ~IsSome(r) THEN None
               ELSE LET x0 == Unwrap(r)
                        x  == IF IsOdd(IntoRepr(x0)) # sign THEN FNeg(x0) ELSE x0
                    IN  Some(PointNew(x, y, FMul(x, y), 1))

\* double with F = G + C in place of F = G - C
double_FplusC(point) ==
  LET a == FSquare(point.x)
      b == FSquare(point.y)
      c == FDouble(FSquare(point.z))
      d == FNeg(a)
      e == FSub(FAdd(FSquare(FAdd(point.x, point.y)), d), b)
      g == FAdd(d, b)
      f == FAdd(g, c)
      h == FSub(d, b)
  IN  PointNew(FMul(e, f), FMul(g, h), FMul(e, h), FMul(f, g))

\* point.rs double (dbl-2008-hwcd)
double(point) ==
  LET a == FSquare(point.x)
      b == FSquare(point.y)
      c == FDouble(FSquare(point.z))
      d == FNeg(a)
      e == FSub(FAdd(FSquare(FAdd(point.x, point.y)), d), b)
      g == FAdd(d, b)
      f == FSub(g, c)
      h == FSub(d, b)
  IN  PointNew(FMul(e, f), FMul(g, h), FMul(e, h), FMul(f, g))

mul_by_cofactor(p) ==
  Bind(double(p), LAMBDA p2 : Bind(double(p2), LAMBDA p4 : double(p4)))

\* the top bit of the last limb: y_repr.as_ref()[3] >> 63
TopBit(repr) == repr[NumLimbs] \div Pow2(LimbBits - 1)
\* y_repr.as_mut()[3] &= 0x7fffffffffffffff
ClearTop(repr) ==
  [i \in 1 .. NumLimbs |->
     IF i = NumLimbs THEN repr[i] % Pow2(LimbBits - 1) ELSE repr[i]]
\* y_repr.as_mut()[3] |= 0x8000000000000000
SetTop(repr) ==
  [i \in 1 .. NumLimbs |->
     IF i = NumLimbs THEN (repr[i] % Pow2(LimbBits - 1)) + Pow2(LimbBits - 1)
     ELSE repr[i]]

\* what read_point does with the BigInteger it has read
PointOfRepr(y_repr) ==
  LET x_sign == TopBit(y_repr) = 1
      y      == FromRepr(ClearTop(y_repr))
  IN  Bind(get_for_y(y, x_sign), LAMBDA p0 :
        IF ~IsSome(p0) THEN None
        ELSE Bind(mul_by_cofactor(Unwrap(p0)), LAMBDA p :
               IF ~PointIsZero(p) THEN Some(p) ELSE None))

read_point(bytes) ==
  Bind(BigIntRead(bytes, NumLimbs), LAMBDA y_repr :
    IF ~IsSome(y_repr) THEN None ELSE PointOfRepr(Unwrap(y_repr)))

\* write_point packing the sign into the top bit of the first limb
write_point_low_limb(point) ==
  LET affine == IntoAffine(point)
      x_repr == IntoRepr(affine.x)
      y_repr == IntoRepr(affine.y)
  IN  BigIntWrite(IF IsOdd(x_repr)
                  THEN [i \in 1 .. NumLimbs |->
                          IF i = 1
                          THEN (y_repr[i] % Pow2(LimbBits - 1)) + Pow2(LimbBits - 1)
                          ELSE y_repr[i]]
                  ELSE y_repr)

write_point(point) ==
  LET affine == IntoAffine(point)
      x_repr == IntoRepr(affine.x)
      y_repr == IntoRepr(affine.y)
  IN  BigIntWrite(IF IsOdd(x_repr) THEN SetTop(y_repr) ELSE y_repr)

(***************************************************************************)
(* The curve as a set, and the group law the code is measured against      *)
(***************************************************************************)
Fq == 0 .. Q - 1

OnCurve(x, y) ==
  (y * y + Q * Q - x * x) % Q = (1 + COEFF_D * x * x * y * y) % Q

AffinePoints == {a \in [x : Fq, y : Fq] : OnCurve(a.x, a.y)}

\* a point in extended coordinates is well formed: Z # 0, T Z = X Y, and its
\* affine point (X/Z, Y/Z) is on the curve
ValidExt(p) ==
  /\ p.z # 0
  /\ FMul(p.t, p.z) = FMul(p.x, p.y)
  /\ LET zi == InvTable[p.z] IN OnCurve(FMul(p.x, zi), FMul(p.y, zi))

\* the affine point of a well-formed extended point
Affine(p) == LET zi == InvTable[p.z] IN [x |-> FMul(p.x, zi), y |-> FMul(p.y, zi)]

\* the twisted Edwards group law (a = -1) on affine points
AffineAdd(p, r) ==
  LET k == FMul(COEFF_D, FMul(FMul(p.x, r.x), FMul(p.y, r.y)))
  IN  [x |-> FMul(FAdd(FMul(p.x, r.y), FMul(p.y, r.x)), InvTable[FAdd(1, k)]),
       y |-> FMul(FAdd(FMul(p.y, r.y), FMul(p.x, r.x)), InvTable[FSub(1, k)])]

AffineZero == [x |-> 0, y |-> 1]

RECURSIVE AffineTimes(_, _)
AffineTimes(n, p) == IF n = 0 THEN AffineZero ELSE AffineAdd(p, AffineTimes(n - 1, p))

\* the prime-order subgroup
InSubgroup(a) == AffineTimes(L, a) = AffineZero
SubgroupPoints == {a \in AffinePoints : InSubgroup(a)}

Ext(a, z) == PointNew(FMul(a.x, z), FMul(a.y, z), FMul(FMul(a.x, a.y), z), z)


(***************************************************************************)
(* constants.rs                                                            *)
(***************************************************************************)
\* the first block of every group hash input
GH_FIRST_BLOCK == << 48, 57, 54, 98 >>
\* the 8-byte personalizations of the fixed generators
PROOF_GENERATION_KEY_BASE_GENERATOR_PERSONALIZATION ==
  << 90, 99, 97, 115, 104, 95, 72, 95 >>
PEDERSEN_HASH_GENERATORS_PERSONALIZATION ==
  << 90, 99, 97, 115, 104, 95, 80, 72 >>
NULLIFIER_POSITION_IN_TREE_GENERATOR_PERSONALIZATION ==
  << 90, 99, 97, 115, 104, 95, 74, 95 >>
VALUE_COMMITMENT_GENERATOR_PERSONALIZATION ==
  << 90, 99, 97, 115, 104, 95, 99, 118 >>
SPENDING_KEY_GENERATOR_PERSONALIZATION ==
  << 90, 99, 97, 115, 104, 95, 71, 95 >>

(***************************************************************************)
(* The hash functions.  Blake2s and Blake2b are functions this program     *)
(* does not define: `blake` is the one the program runs with, drawn when   *)
(* the program starts from a family of functions.  blake.key selects the   *)
(* function; blake.dead > 0 selects one that maps every group hash input   *)
(* whose last byte (the counter of find_group_hash) is below blake.dead to *)
(* the digest blake.bad.                                                   *)
(***************************************************************************)
VARIABLE blake

HashPrime == 32749
HashBase == 33

\* HashBase ^ e modulo HashPrime
RECURSIVE BasePow(_)
BasePow(e) ==
  IF e = 0 THEN 1
  ELSE Bind(BasePow(e \div 2), LAMBDA h :
         (((h * h) % HashPrime) * (IF e % 2 = 1 THEN HashBase ELSE 1)) % HashPrime)

\* what the compression makes of the bytes bs[lo .. hi], and of a whole input:
\* a polynomial in HashBase with the bytes as coefficients
RECURSIVE AbsorbRange(_, _, _)
AbsorbRange(bs, lo, hi) ==
  IF lo > hi THEN 0
  ELSE IF lo = hi THEN (bs[lo] + 1) % HashPrime
  ELSE LET mid == (lo + hi) \div 2
       IN  (AbsorbRange(bs, lo, mid) * BasePow(hi - mid)
              + AbsorbRange(bs, mid + 1, hi)) % HashPrime

Absorb(bs) == AbsorbRange(bs, 1, Len(bs))

\* the last round: spreads neighbouring states over the digests
Finalize(h) == ((h + 1) * 7919 + (h \div 256) * 131) % HashPrime

\* the digest of n bytes with the given value
DigestBytes(v, n) == [i \in 1 .. n |-> (v \div Pow2(ByteBits * (i - 1))) % ByteMod]

Blake2(n, persona, data) ==
  Bind(<< n >> \o persona \o << 255 >> \o data, LAMBDA input :
    Bind(Finalize(Absorb(input)), LAMBDA h :
      DigestBytes((h + blake.key) % Pow2(n * ByteBits), n)))

\* Blake2s::with_params(32, &[], &[], personalization), update ..., finalize
Blake2s(personalization, data) ==
  IF data # << >> /\ data[Len(data)] < blake.dead
  THEN DigestBytes(blake.bad, NumBytes)
  ELSE Blake2(NumBytes, personalization, data)

\* Blake2b::with_params(64, &[], &[], persona), update ..., finalize
Blake2b(persona, data) == Blake2(WideBytes, persona, data)

(***************************************************************************)
(* group_hash.rs                                                           *)
(***************************************************************************)
\* a call that returned v, and a call that panicked
Ret(v) == [panic |-> FALSE, val |-> v]
Panic == [panic |-> TRUE, val |-> None]

\* group_hash.rs get_for_y taking the root whose parity differs from the sign bit
gh_get_for_y_other_root(y, sign) ==
  LET ysq  == FSquare(y)
      tmp2 == FInverse(FAdd(FMul(ysq, COEFF_D), 1))
      tmp1 == FSub(ysq, 1)
  IN  IF ~IsSome(tmp2) THEN None
      ELSE LET r == FSqrt(FMul(tmp1, Unwrap(tmp2)))
           IN  IF ~IsSome(r) THEN None
               ELSE LET x0 == Unwrap(r)
                        x  == IF IsOdd(IntoRepr(x0)) = sign THEN FNeg(x0) ELSE x0
                    IN  Some(PointNew(x, y, FMul(x, y), 1))

\* group_hash.rs get_for_y
gh_get_for_y(y, sign) ==
  LET ysq  == FSquare(y)
      tmp2 == FInverse(FAdd(FMul(ysq, COEFF_D), 1))
      tmp1 == FSub(ysq, 1)
  IN  IF ~IsSome(tmp2) THEN None
      ELSE LET r == FSqrt(FMul(tmp1, Unwrap(tmp2)))
           IN  IF ~IsSome(r) THEN None
               ELSE LET x0 == Unwrap(r)
                        x  == IF IsOdd(IntoRepr(x0)) # sign THEN FNeg(x0) ELSE x0
                    IN  Some(PointNew(x, y, FMul(x, y), 1))

\* group_hash.rs double
gh_double(point) ==
  LET a == FSquare(point.x)
      b == FSquare(point.y)
      c == FDouble(FSquare(point.z))
      d == FNeg(a)
      e == FSub(FAdd(FSquare(FAdd(point.x, point.y)), d), b)
      g == FAdd(d, b)
      f == FSub(g, c)
      h == FSub(d, b)
  IN  PointNew(FMul(e, f), FMul(g, h), FMul(e, h), FMul(f, g))

\* group_hash doubling twice where the code doubles three times
GroupHashOfDigest_two_doublings(h) ==
  Bind(BigIntRead(h, NumLimbs), LAMBDA y_repr :
    IF ~IsSome(y_repr) THEN None
    ELSE LET x_sign == TopBit(Unwrap(y_repr)) = 1
             y      == FromRepr(ClearTop(Unwrap(y_repr)))
         IN  Bind(gh_get_for_y(y, x_sign), LAMBDA p0 :
               IF ~IsSome(p0) THEN None
               ELSE Bind(gh_double(Unwrap(p0)), LAMBDA p2 :
                    Bind(gh_double(p2), LAMBDA p :
                      IF ~PointIsZero(p) THEN Some(p) ELSE None))))

\* group_hash from the digest on: lines 28-45
GroupHashOfDigest(h) ==
  Bind(BigIntRead(h, NumLimbs), LAMBDA y_repr :
    IF ~IsSome(y_repr) THEN None
    ELSE LET x_sign == TopBit(Unwrap(y_repr)) = 1
             y      == FromRepr(ClearTop(Unwrap(y_repr)))
         IN  Bind(gh_get_for_y(y, x_sign), LAMBDA p0 :
               IF ~IsSome(p0) THEN None
               ELSE Bind(gh_double(Unwrap(p0)), LAMBDA p2 :
                    Bind(gh_double(p2), LAMBDA p4 :
                    Bind(gh_double(p4), LAMBDA p :
                      IF ~PointIsZero(p) THEN Some(p) ELSE None)))))

\* the length a personalization must have
PersonalizationLen == 8

group_hash(tag, personalization) ==
  IF Len(personalization) # PersonalizationLen THEN Panic
  ELSE Bind(Blake2s(personalization, GH_FIRST_BLOCK \o tag), LAMBDA h :
         Ret(GroupHashOfDigest(h)))

\* u8::max_value()
U8Max == 255

\* find_group_hash, from the iteration of its loop with tag[i] = c on
RECURSIVE FindGroupHashFrom(_, _, _)
FindGroupHashFrom(m, personalization, c) ==
  Bind(group_hash(Append(m, c), personalization), LAMBDA gh :
    IF gh.panic \/ c = U8Max THEN Panic
    ELSE IF IsSome(gh.val) THEN Ret(Unwrap(gh.val))
    ELSE FindGroupHashFrom(m, personalization, c + 1))

find_group_hash(m, personalization) == FindGroupHashFrom(m, personalization, 0)

(***************************************************************************)
(* generator.rs                                                            *)
(***************************************************************************)
FixedGenerators ==
  { "ProofGenerationKey", "NoteCommitmentRandomness", "NullifierPosition",
    "ValueCommitmentValue", "ValueCommitmentRandomness", "SpendingKeyGenerator" }

\* FixedGenerators::point: the m and the personalization of each variant
GeneratorSeed(g) ==
  CASE g = "ProofGenerationKey" -> << >>
    [] g = "NoteCommitmentRandomness" -> << 114 >>
    [] g = "NullifierPosition" -> << >>
    [] g = "ValueCommitmentValue" -> << 118 >>
    [] g = "ValueCommitmentRandomness" -> << 114 >>
    [] g = "SpendingKeyGenerator" -> << >>

GeneratorPersonalization(g) ==
  CASE g = "ProofGenerationKey" -> PROOF_GENERATION_KEY_BASE_GENERATOR_PERSONALIZATION
    [] g = "NoteCommitmentRandomness" -> PEDERSEN_HASH_GENERATORS_PERSONALIZATION
    [] g = "NullifierPosition" -> NULLIFIER_POSITION_IN_TREE_GENERATOR_PERSONALIZATION
    [] g = "ValueCommitmentValue" -> VALUE_COMMITMENT_GENERATOR_PERSONALIZATION
    [] g = "ValueCommitmentRandomness" -> VALUE_COMMITMENT_GENERATOR_PERSONALIZATION
    [] g = "SpendingKeyGenerator" -> SPENDING_KEY_GENERATOR_PERSONALIZATION

GeneratorPoint(g) == find_group_hash(GeneratorSeed(g), GeneratorPersonalization(g))

(***************************************************************************)
(* util.rs                                                                 *)
(***************************************************************************)
\* the words of a digest read with u64::from_be_bytes
WideRepr_from_be_bytes(digest) ==
  [i \in 1 .. WideLimbs |->
     FromLeBytes([k \in 1 .. LimbBytes |-> digest[i * LimbBytes + 1 - k]])]

\* the [u64; 8] of a digest: each word is u64::from_le_bytes of its bytes
WideRepr(digest) ==
  [i \in 1 .. WideLimbs |->
     FromLeBytes(SubSeq(digest, (i - 1) * LimbBytes + 1, i * LimbBytes))]

\* bit n of a BigInteger, as BitIterator yields it: (repr[n / 64] >> (n % 64)) & 1
BitAt(repr, n) == (repr[(n \div LimbBits) + 1] \div Pow2(n % LimbBits)) % 2 = 1

\* one iteration of the loop of hash_to_scalar
MulBitsStep(res, bit) == IF bit THEN SAdd(SDouble(res), 1) ELSE SDouble(res)

\* the loop of hash_to_scalar with n bits left: BitIterator runs from the top
\* bit of the last word down to bit 0 of the first
RECURSIVE MulBits(_, _, _)
MulBits(repr, n, res) ==
  IF n = 0 THEN res
  ELSE Bind(MulBitsStep(res, BitAt(repr, n - 1)), LAMBDA next :
         MulBits(repr, n - 1, next))

hash_to_scalar(persona, a, b) ==
  Bind(Blake2b(persona, a \o b), LAMBDA digest :
    Bind(WideRepr(digest), LAMBDA repr :
      MulBits(repr, WideLimbs * LimbBits, 0)))

\* b"Zcash_RedJubjubH"
RedJubjubH ==
  << 90, 99, 97, 115, 104, 95, 82, 101, 100, 74, 117, 98, 106, 117, 98, 72 >>

h_star(a, b) == hash_to_scalar(RedJubjubH, a, b)

(***************************************************************************)
(* lib.rs                                                                  *)
(***************************************************************************)
\* Point::mul by a scalar: double and add over the bits of its representation
RECURSIVE PointMulBits(_, _, _, _)
PointMulBits(p, repr, n, res) ==
  IF n = 0 THEN res
  ELSE Bind(PointAdd(res, res), LAMBDA dbl :
       Bind(IF BitAt(repr, n - 1) THEN PointAdd(dbl, p) ELSE dbl, LAMBDA next :
         PointMulBits(p, repr, n - 1, next)))

PointMul(p, k) ==
  Bind(IntoRepr(k), LAMBDA repr :
    PointMulBits(p, repr, NumLimbs * LimbBits, PointZero))

\* E::ScalarField::write
ScalarWrite(s) == BigIntWrite(IntoRepr(s))

\* E::ScalarField::read: BigInteger::read(reader).map(from_repr).  from_repr
\* is total (point.rs passes its result on as a field element): it yields
\* zero for a representation that is not below the modulus.
ScalarRead(bytes) ==
  LET repr == BigIntRead(bytes, NumLimbs)
  IN  IF ~IsSome(repr) THEN None
      ELSE Some(IF ReprValue(Unwrap(repr)) < L THEN ReprValue(Unwrap(repr)) ELSE 0)

Signature(rbar, sbar) == [rbar |-> rbar, sbar |-> sbar]

\* PrivateKey::sign; t is what rng.fill_bytes wrote
sign(field, msg, t, generator) ==
  Bind(h_star(t, msg), LAMBDA r :
  Bind(GeneratorPoint(generator), LAMBDA gen :
    IF gen.panic THEN Panic
    ELSE Bind(PointMul(gen.val, r), LAMBDA r_g :
         Bind(write_point(r_g), LAMBDA rbar :
         Bind(SAdd(SMul(h_star(rbar, msg), field), r), LAMBDA s :
           Ret(Signature(rbar, ScalarWrite(s))))))))

\* PublicKey::from_private
from_private(field, generator) ==
  Bind(GeneratorPoint(generator), LAMBDA gen :
    IF gen.panic THEN Panic ELSE Ret(PointMul(gen.val, field)))

\* verify going on with the identity where read_point returned None
verify_identity_r(pubkey, msg, sig, generator) ==
  Bind(h_star(sig.rbar, msg), LAMBDA c :
  Bind(read_point(sig.rbar), LAMBDA r :
  Bind(ScalarRead(sig.sbar), LAMBDA s :
    IF ~IsSome(s) THEN Ret(FALSE)
    ELSE Bind(GeneratorPoint(generator), LAMBDA gen :
           IF gen.panic THEN Panic
           ELSE Bind(PointMul(pubkey, c), LAMBDA c_vk :
                Bind(PointMul(gen.val, Unwrap(s)), LAMBDA s_g :
                Bind(PointAdd(PointAdd(c_vk, IF IsSome(r) THEN Unwrap(r) ELSE PointZero),
                              PointNeg(s_g)), LAMBDA p :
                Bind(mul_by_cofactor(p), LAMBDA p8 :
                  Ret(PointIsZero(p8))))))))))

\* PublicKey::verify
verify(pubkey, msg, sig, generator) ==
  Bind(h_star(sig.rbar, msg), LAMBDA c :
  Bind(read_point(sig.rbar), LAMBDA r :
    IF ~IsSome(r) THEN Ret(FALSE)
    ELSE Bind(ScalarRead(sig.sbar), LAMBDA s :
      IF ~IsSome(s) THEN Ret(FALSE)
      ELSE Bind(GeneratorPoint(generator), LAMBDA gen :
             IF gen.panic THEN Panic
             ELSE Bind(PointMul(pubkey, c), LAMBDA c_vk :
                  Bind(PointMul(gen.val, Unwrap(s)), LAMBDA s_g :
                  Bind(PointAdd(PointAdd(c_vk, Unwrap(r)), PointNeg(s_g)), LAMBDA p :
                  Bind(mul_by_cofactor(p), LAMBDA p8 :
                    Ret(PointIsZero(p8))))))))))

\* <PublicKey as FromBytes>::read
PublicKeyRead(bytes) ==
  Bind(read_point(bytes), LAMBDA point :
    IF ~IsSome(point) THEN Panic ELSE Ret(Some(Unwrap(point))))

(***************************************************************************)
(* State                                                                   *)
(***************************************************************************)
VARIABLES
  pc,            \* where the operation under way stands
  input_point,   \* point.rs: the Point an operation is applied to
  output_point,  \* point.rs: the Point double / mul_by_cofactor returned
  encoded,       \* point.rs: the bytes write_point wrote
  decoded,       \* point.rs: what read_point returned
  variant,       \* lib.rs: the FixedGenerators generator in use
  message,       \* lib.rs: the message
  privkey,       \* lib.rs: PrivateKey.field of the signer, if there is one
  public_key,    \* lib.rs: PublicKey.point
  rng_bytes,     \* lib.rs: the bytes the rng gave sign
  signature,     \* lib.rs: the Signature
  verdict,       \* lib.rs: what verify returned
  gh_tag,        \* group_hash.rs: the tag being hashed
  gh_persona,    \* group_hash.rs: the personalization
  gh_attempts,   \* group_hash.rs: the calls of group_hash find_group_hash made
  gh_outcome,    \* group_hash.rs: what group_hash / find_group_hash returned
  h2s_a,         \* util.rs: the first input of h_star
  h2s_b,         \* util.rs: the second input of h_star
  h2s_digest,    \* util.rs: the digest hash_to_scalar got from Blake2b
  h2s_scalar     \* util.rs: the scalar hash_to_scalar returned

pointVars == << input_point, output_point, encoded, decoded >>
sigVars == << variant, message, privkey, public_key, rng_bytes, signature, verdict >>
hashVars ==
  << gh_tag, gh_persona, gh_attempts, gh_outcome, h2s_a, h2s_b, h2s_digest, h2s_scalar >>
vars == << pc, blake, pointVars, sigVars, hashVars >>

\* the hash functions of an operation that hashes nothing
NoBlake == [key |-> 0, dead |-> 0, bad |-> 0]

PointIdle ==
  /\ input_point = PointZero
  /\ output_point = PointZero
  /\ encoded = << >>
  /\ decoded = None

SigIdle ==
  /\ variant = "SpendingKeyGenerator"
  /\ message = << >>
  /\ privkey = None
  /\ public_key = PointZero
  /\ rng_bytes = << >>
  /\ signature = Signature(<< >>, << >>)
  /\ verdict = FALSE

HashIdle ==
  /\ gh_tag = << >>
  /\ gh_persona = << >>
  /\ gh_attempts = 0
  /\ gh_outcome = None
  /\ h2s_a = << >>
  /\ h2s_b = << >>
  /\ h2s_digest = << >>
  /\ h2s_scalar = 0

\* bound: the Z coordinates an input point is given with are 1 .. MaxZ
MaxZ == 12

(***************************************************************************)
(* SpecPoint: the operations of point.rs applied to every curve point      *)
(***************************************************************************)
PointInit ==
  /\ pc = "start"
  /\ input_point \in {Ext(a, z) : a \in AffinePoints, z \in 1 .. MaxZ}
  /\ output_point = PointZero
  /\ encoded = << >>
  /\ decoded = None
  /\ blake = NoBlake
  /\ SigIdle
  /\ HashIdle

Double ==
  /\ pc = "start"
  /\ output_point' = double(input_point)
  /\ pc' = "doubled"
  /\ UNCHANGED << blake, sigVars, hashVars, input_point, encoded, decoded >>

MulByCofactor ==
  /\ pc = "start"
  /\ output_point' = mul_by_cofactor(input_point)
  /\ pc' = "cleared"
  /\ UNCHANGED << blake, sigVars, hashVars, input_point, encoded, decoded >>

WritePoint ==
  /\ pc = "start"
  /\ encoded' = write_point(input_point)
  /\ pc' = "written"
  /\ UNCHANGED << blake, sigVars, hashVars, input_point, output_point, decoded >>

ReadPoint ==
  /\ pc = "written"
  /\ decoded' = read_point(encoded)
  /\ pc' = "read"
  /\ UNCHANGED << blake, sigVars, hashVars, input_point, output_point, encoded >>

PointNext == Double \/ MulByCofactor \/ WritePoint \/ ReadPoint

SpecPoint == PointInit /\ [][PointNext]_vars


(***************************************************************************)
(* Properties of point.rs                                                  *)
(***************************************************************************)
\* C2: for every point p of the prime-order subgroup, read_point of the
\* bytes write_point(p) wrote returns Some(q) with q the same affine point.
\* (Stated for the points other than the identity, which read_point refuses
\* as it refuses every point that cofactor clearing sends to the identity.)
C2_RoundTrip ==
  (pc = "read" /\ InSubgroup(Affine(input_point)) /\ Affine(input_point) # AffineZero)
    => (IsSome(decoded) /\ Affine(Unwrap(decoded)) = Affine(input_point))

\* C6: write_point writes exactly NumBytes bytes; read as one little-endian
\* integer, all bits but the top one are the affine y, and the top bit (the
\* top bit of the last byte) is 1 exactly when the affine x is odd.
C6_Format ==
  pc = "written" =>
    LET a == Affine(input_point)
    IN  /\ Len(encoded) = NumBytes
        /\ \A k \in 1 .. NumBytes : encoded[k] \in Byte
        /\ FromLeBytes(encoded) % Pow2(NumBytes * ByteBits - 1) = a.y
        /\ (encoded[NumBytes] \div Pow2(ByteBits - 1) = 1) <=> (a.x % 2 = 1)

C6_Witness ==
  /\ pc = "written"
  /\ input_point.z # 1
  /\ Affine(input_point).x % 2 = 1
  /\ Affine(input_point).y >= LimbMod
  /\ encoded[NumBytes] >= Pow2(ByteBits - 1)

\* C10: for every well-formed extended point P, the identity included,
\* double(P) is a well-formed extended point of P + P under the group law,
\* and mul_by_cofactor(P) is a well-formed extended point of 8 P.
C10_Double ==
  /\ pc = "doubled" =>
       /\ ValidExt(output_point)
       /\ Affine(output_point) = AffineAdd(Affine(input_point), Affine(input_point))
  /\ pc = "cleared" =>
       /\ ValidExt(output_point)
       /\ Affine(output_point) = AffineTimes(8, Affine(input_point))

C10_Witness ==
  /\ pc = "doubled"
  /\ Affine(input_point) = AffineZero
  /\ input_point.z # 1
  /\ PointIsZero(output_point)


(***************************************************************************)
(* SpecSig: keys, signatures made by sign or supplied as bytes, and verify *)
(***************************************************************************)
\* bound: messages are the strings of at most MaxMsgLen bytes "F"
MaxMsgLen == 0
\* bound: the rng streams are those starting at 0 .. MaxSeed
MaxSeed == 1
\* bound: supplied public keys have an affine y of at most MaxKeyY
MaxKeyY == 5
\* t = [0u8; 80]
TLen == 80

Msgs == {[i \in 1 .. n |-> 70] : n \in 0 .. MaxMsgLen}
\* StepRng::new(seed, 1) filling t
RngBytes(seed) == [i \in 1 .. TLen |-> (seed + i) % 256]

\* every rbar there is
Encodings == {DigestBytes(v, NumBytes) : v \in 0 .. Pow2(NumBytes * ByteBits) - 1}
\* the sbar somebody supplies: the least and the greatest scalar, the least
\* integer that is no scalar, and the greatest integer of the encoding
SuppliedS ==
  {DigestBytes(v, NumBytes) : v \in {0, L - 1, L, Pow2(NumBytes * ByteBits) - 1}}
SuppliedKeys == {Ext(a, 1) : a \in {b \in AffinePoints : b.y <= MaxKeyY}}

SigInit ==
  /\ pc = "start"
  /\ blake = NoBlake
  /\ variant \in FixedGenerators
  /\ message \in Msgs
  /\ privkey = None
  /\ public_key = PointZero
  /\ rng_bytes = << >>
  /\ signature = Signature(<< >>, << >>)
  /\ verdict = FALSE
  /\ PointIdle
  /\ HashIdle

\* a private key is drawn and PublicKey::from_private makes its public key
FromPrivate ==
  /\ pc = "start"
  /\ privkey' \in {Some(field) : field \in 0 .. L - 1}
  /\ \E pk \in {from_private(Unwrap(privkey'), variant)} :
       /\ public_key' = IF pk.panic THEN public_key ELSE pk.val
       /\ pc' = IF pk.panic THEN "panicked" ELSE "keyed"
  /\ UNCHANGED << blake, pointVars, hashVars, variant, message, rng_bytes, signature, verdict >>

\* PublicKey::new on a point somebody supplied
NewKey ==
  /\ pc = "start"
  /\ public_key' \in SuppliedKeys
  /\ pc' = "supplied"
  /\ UNCHANGED << blake, pointVars, hashVars, variant, message, privkey, rng_bytes, signature, verdict >>

\* PrivateKey::sign
Sign ==
  /\ pc = "keyed"
  /\ rng_bytes' \in {RngBytes(seed) : seed \in 0 .. MaxSeed}
  /\ \E sg \in {sign(Unwrap(privkey), message, rng_bytes', variant)} :
       /\ signature' = IF sg.panic THEN signature ELSE sg.val
       /\ pc' = IF sg.panic THEN "panicked" ELSE "signed"
  /\ UNCHANGED << blake, pointVars, hashVars, variant, message, privkey, public_key, verdict >>

\* PublicKey::verify of the signature sign made
Verify ==
  /\ pc = "signed"
  /\ \E v \in {verify(public_key, message, signature, variant)} :
       /\ verdict' = IF v.panic THEN verdict ELSE v.val
       /\ pc' = IF v.panic THEN "panicked" ELSE "verified"
  /\ UNCHANGED << blake, pointVars, hashVars, variant, message, privkey, public_key, rng_bytes, signature >>

\* PublicKey::verify of a signature somebody supplied
VerifySupplied ==
  /\ pc = "supplied"
  /\ signature' \in {Signature(rbar, sbar) : rbar \in Encodings, sbar \in SuppliedS}
  /\ \E v \in {verify(public_key, message, signature', variant)} :
       /\ verdict' = IF v.panic THEN verdict ELSE v.val
       /\ pc' = IF v.panic THEN "panicked" ELSE "judged"
  /\ UNCHANGED << blake, pointVars, hashVars, variant, message, privkey, public_key, rng_bytes >>

SigNext == FromPrivate \/ NewKey \/ Sign \/ Verify \/ VerifySupplied

SpecSig == SigInit /\ [][SigNext]_vars


(***************************************************************************)
(* Properties of lib.rs                                                    *)
(***************************************************************************)
\* C1: the signature sign makes with a private key verifies under the public
\* key from_private makes of that key, whatever the message, the rng stream
\* and the generator.
C1_SignVerify == pc = "verified" => verdict = TRUE

\* C3: verify returns a boolean and never panics, whatever the public key,
\* the message, the generator and the 64 bytes of the signature; and it
\* returns false whenever read_point(rbar) is None.
C3_VerifyTotal ==
  /\ pc # "panicked"
  /\ pc \in {"verified", "judged"} =>
       /\ verdict \in BOOLEAN
       /\ ~IsSome(read_point(signature.rbar)) => verdict = FALSE

\* a supplied rbar whose y has an x on the curve, but which cofactor clearing
\* sends to the identity, has been refused
C3_Witness ==
  /\ pc = "judged"
  /\ verdict = FALSE
  /\ ~IsSome(read_point(signature.rbar))
  /\ IsSome(get_for_y(FromRepr(ClearTop(Unwrap(BigIntRead(signature.rbar, NumLimbs)))), FALSE))
  /\ ~InSubgroup(Affine(public_key))

\* C4: verify returns false for every signature whose sbar, read as a
\* little-endian integer, is not below the scalar field order.
C4_NonCanonicalS ==
  (pc = "judged" /\ FromLeBytes(signature.sbar) >= L) => verdict = FALSE


(***************************************************************************)
(* SpecKey: a PublicKey read from the bytes somebody supplied              *)
(***************************************************************************)
\* what a reader may hold: every string of at most NumBytes bytes
KeyInputs == UNION {[1 .. n -> Byte] : n \in 0 .. NumBytes}

KeyInit ==
  /\ pc = "start"
  /\ blake = NoBlake
  /\ encoded \in KeyInputs
  /\ input_point = PointZero
  /\ output_point = PointZero
  /\ decoded = None
  /\ SigIdle
  /\ HashIdle

\* <PublicKey as FromBytes>::read
ReadKey ==
  /\ pc = "start"
  /\ \E k \in {PublicKeyRead(encoded)} :
       /\ public_key' = IF ~k.panic /\ IsSome(k.val) THEN Unwrap(k.val) ELSE public_key
       /\ pc' = IF k.panic THEN "panicked"
                ELSE IF IsSome(k.val) THEN "key_read" ELSE "key_error"
  /\ UNCHANGED << blake, pointVars, hashVars, variant, message, privkey, rng_bytes,
                  signature, verdict >>

KeyNext == ReadKey

SpecKey == KeyInit /\ [][KeyNext]_vars

\* C5: reading a PublicKey from input that is too short, or that read_point
\* does not decode, gives the caller an error: it neither panics nor yields
\* a PublicKey.
C5_KeyReadError ==
  (pc # "start" /\ ~IsSome(read_point(encoded))) => pc = "key_error"


(***************************************************************************)
(* SpecGH: group_hash under every Blake2s of the family                    *)
(***************************************************************************)
\* bound: tags are the strings of at most MaxTagLen bytes "r"
MaxTagLen == 1

Tags == {[i \in 1 .. n |-> 114] : n \in 0 .. MaxTagLen}
Personalizations ==
  {GeneratorPersonalization(g) : g \in FixedGenerators}

\* the functions blake.key selects send a given input to every digest
AllKeys == 0 .. Pow2(NumBytes * ByteBits) - 1

GHInit ==
  /\ pc = "start"
  /\ blake \in [key : AllKeys, dead : {0}, bad : {0}]
  /\ gh_tag \in Tags
  /\ gh_persona \in Personalizations \cup {<< 90, 99 >>}
  /\ gh_attempts = 0
  /\ gh_outcome = None
  /\ h2s_a = << >>
  /\ h2s_b = << >>
  /\ h2s_digest = << >>
  /\ h2s_scalar = 0
  /\ PointIdle
  /\ SigIdle

GroupHash ==
  /\ pc = "start"
  /\ \E gh \in {group_hash(gh_tag, gh_persona)} :
       /\ gh_outcome' = gh.val
       /\ pc' = IF gh.panic THEN "panicked" ELSE "hashed"
  /\ UNCHANGED << blake, pointVars, sigVars, gh_tag, gh_persona, gh_attempts,
                  h2s_a, h2s_b, h2s_digest, h2s_scalar >>

GHNext == GroupHash

SpecGH == GHInit /\ [][GHNext]_vars

\* C8: for every tag and every 8-byte personalization, group_hash returns
\* None or Some(p) with p a well-formed point on the curve that is not the
\* identity and lies in the prime-order subgroup.
C8_GroupHash ==
  (pc = "hashed" /\ IsSome(gh_outcome)) =>
    LET p == Unwrap(gh_outcome)
    IN  /\ ValidExt(p)
        /\ ~PointIsZero(p)
        /\ Affine(p) # AffineZero
        /\ InSubgroup(Affine(p))

\* a digest whose point is outside the subgroup has been hashed to a point
C8_Witness ==
  /\ pc = "hashed"
  /\ IsSome(gh_outcome)
  /\ gh_tag # << >>
  /\ LET y_repr == Unwrap(BigIntRead(Blake2s(gh_persona, GH_FIRST_BLOCK \o gh_tag), NumLimbs))
         p0     == gh_get_for_y(FromRepr(ClearTop(y_repr)), TopBit(y_repr) = 1)
     IN  IsSome(p0) /\ ~InSubgroup(Affine(Unwrap(p0)))


(***************************************************************************)
(* SpecH2S: h_star under every Blake2b of the family                       *)
(***************************************************************************)
\* the functions blake.key selects send a given input to every wide digest
AllWideKeys == 0 .. Pow2(WideBytes * ByteBits) - 1

H2SInit ==
  /\ pc = "start"
  /\ blake \in [key : AllWideKeys, dead : {0}, bad : {0}]
  /\ h2s_a \in Tags
  /\ h2s_b \in Msgs
  /\ h2s_digest = << >>
  /\ h2s_scalar = 0
  /\ gh_tag = << >>
  /\ gh_persona = << >>
  /\ gh_attempts = 0
  /\ gh_outcome = None
  /\ PointIdle
  /\ SigIdle

\* h_star(a, b); the digest its hasher finalized to is kept beside the result
HStar ==
  /\ pc = "start"
  /\ h2s_digest' = Blake2b(RedJubjubH, h2s_a \o h2s_b)
  /\ h2s_scalar' = h_star(h2s_a, h2s_b)
  /\ pc' = "reduced"
  /\ UNCHANGED << blake, pointVars, sigVars, gh_tag, gh_persona, gh_attempts,
                  gh_outcome, h2s_a, h2s_b >>

H2SNext == HStar

SpecH2S == H2SInit /\ [][H2SNext]_vars

\* C9: the scalar hash_to_scalar returns is the digest, read as one
\* little-endian integer of WideBytes bytes, reduced modulo the order L of
\* the scalar field.
C9_Reduction ==
  pc = "reduced" => h2s_scalar = FromLeBytes(h2s_digest) % L

\* a digest with a top word that is not zero, whose bytes do not read the
\* same in both directions, and which is no scalar itself
C9_Witness ==
  /\ pc = "reduced"
  /\ Len(h2s_digest) = WideBytes
  /\ FromLeBytes(h2s_digest) >= Pow2((WideLimbs - 1) * LimbBits)
  /\ h2s_digest[1] # h2s_digest[LimbBytes]
  /\ h2s_scalar # FromLeBytes(h2s_digest)
  /\ h2s_scalar # 0


(***************************************************************************)
(* SpecFind: find_group_hash, one iteration of its loop at a time          *)
(***************************************************************************)
\* bound: the Blake2s of a run is one of those blake.key in 0 .. MaxFindKey
\* selects
MaxFindKey == 3
\* bound: the digest a dead counter is sent to is a value in 0 .. MaxBad
\* that group_hash refuses
MaxBad == 2

\* how many counters, from 0 on, Blake2s sends to a refused digest
DeadCounters == {0, 1, 2, U8Max - 1, U8Max, U8Max + 1}
RefusedDigests ==
  {v \in 0 .. MaxBad : ~IsSome(GroupHashOfDigest(DigestBytes(v, NumBytes)))}

FindInit ==
  /\ pc = "start"
  /\ blake \in [key : 0 .. MaxFindKey, dead : DeadCounters, bad : RefusedDigests]
  /\ \E g \in FixedGenerators :
       /\ gh_tag = GeneratorSeed(g)
       /\ gh_persona = GeneratorPersonalization(g)
  /\ gh_attempts = 0
  /\ gh_outcome = None
  /\ h2s_a = << >>
  /\ h2s_b = << >>
  /\ h2s_digest = << >>
  /\ h2s_scalar = 0
  /\ PointIdle
  /\ SigIdle

\* let mut tag = m.to_vec(); let i = tag.len(); tag.push(0u8)
FindStart ==
  /\ pc = "start"
  /\ gh_tag' = Append(gh_tag, 0)
  /\ pc' = "loop"
  /\ UNCHANGED << blake, pointVars, sigVars, gh_persona, gh_attempts, gh_outcome,
                  h2s_a, h2s_b, h2s_digest, h2s_scalar >>

\* one iteration of the loop: group_hash, the assertion, the increment, and
\* the break when group_hash returned a point
FindIterate ==
  /\ pc = "loop"
  /\ \E gh \in {group_hash(gh_tag, gh_persona)} :
       LET i == Len(gh_tag)
       IN  /\ gh_attempts' = gh_attempts + 1
           /\ IF gh.panic \/ gh_tag[i] = U8Max
              THEN /\ pc' = "panicked"
                   /\ UNCHANGED << gh_tag, gh_outcome >>
              ELSE /\ gh_tag' = Append(SubSeq(gh_tag, 1, i - 1), gh_tag[i] + 1)
                   /\ gh_outcome' = gh.val
                   /\ pc' = IF IsSome(gh.val) THEN "returned" ELSE "loop"
  /\ UNCHANGED << blake, pointVars, sigVars, gh_persona,
                  h2s_a, h2s_b, h2s_digest, h2s_scalar >>

FindNext == FindStart \/ FindIterate

SpecFind == FindInit /\ [][FindNext]_vars

\* C7: find_group_hash returns group_hash(seed || c) for the smallest
\* counter c in 0 .. 255 at which group_hash returns a point; it fails
\* fatally only when group_hash returns None for all 256 counters; and it
\* calls group_hash at most 256 times.
C7_FindGroupHash ==
  LET seed == SubSeq(gh_tag, 1, Len(gh_tag) - 1)
      hits == {c \in 0 .. U8Max : IsSome(group_hash(Append(seed, c), gh_persona).val)}
  IN  /\ gh_attempts <= U8Max + 1
      /\ pc = "returned" =>
           /\ hits # {}
           /\ LET first == CHOOSE c \in hits : \A d \in hits : c <= d
              IN  gh_outcome = group_hash(Append(seed, first), gh_persona).val
      /\ pc = "panicked" => hits = {}


(***************************************************************************)
(* SpecDigest: the digest of group_hash handed to read_point               *)
(***************************************************************************)
\* group_hash, keeping the digest it interprets
DigestHash ==
  /\ pc = "start"
  /\ \E gh \in {group_hash(gh_tag, gh_persona)} :
       /\ gh_outcome' = gh.val
       /\ encoded' = IF gh.panic THEN encoded
                     ELSE Blake2s(gh_persona, GH_FIRST_BLOCK \o gh_tag)
       /\ pc' = IF gh.panic THEN "panicked" ELSE "digest_hashed"
  /\ UNCHANGED << blake, sigVars, gh_tag, gh_persona, gh_attempts,
                  h2s_a, h2s_b, h2s_digest, h2s_scalar,
                  input_point, output_point, decoded >>

\* read_point on a reader that holds the digest
DigestRead ==
  /\ pc = "digest_hashed"
  /\ decoded' = read_point(encoded)
  /\ pc' = "digest_read"
  /\ UNCHANGED << blake, sigVars, hashVars, input_point, output_point, encoded >>

DigestNext == DigestHash \/ DigestRead

SpecDigest == GHInit /\ [][DigestNext]_vars

\* C11: group_hash interprets its digest as read_point does: for every digest
\* d, what group_hash computes from d is read_point(d), both in which digests
\* give None and in the point returned.
C11_DigestAsReadPoint ==
  pc = "digest_read" =>
    /\ Len(encoded) = NumBytes
    /\ gh_outcome = decoded

\* a digest that both group_hash and read_point turn into a point has been read
C11_Witness ==
  /\ pc = "digest_read"
  /\ IsSome(gh_outcome)
  /\ IsSome(decoded)

=============================================================================
